---- MODULE Spec2Model ----
(***************************************************************************)
(* PIDWS alarm dashboard (app.py): start-up ingestion of the Excel files   *)
(* of the data directory, classification of every row, and the four Dash   *)
(* callbacks that query the resulting frame df_raw.                        *)
(*                                                                         *)
(* Values.  A cell of a text or numeric column is a string, NaN when the   *)
(* cell is empty.  A timestamp is a number of seconds, 86400 per day, NaT  *)
(* when missing.  A datetime.date is a day number.  A date-picker value is  *)
(* the ISO string Dash hands to the callbacks, NoneVal when the property   *)
(* is None.  The pass-through columns 'Alert Type/Severity',               *)
(* 'Alert Duration(HH:MM:SS)' and 'Event Type' are never read by the code  *)
(* and are left out of the rows.                                           *)
(***************************************************************************)
EXTENDS Integers, Sequences, FiniteSets, TLC

VARIABLES
    dir,        \* the files of folder_path, in the order glob lists them
    pc,         \* "boot", "loaded", "classified", "serving" or "aborted"
    df_raw,     \* the module-level DataFrame, a sequence of rows
    sections,   \* df_raw['Section'].dropna().unique()
    ui,         \* the value properties of the input components
    outputs     \* per callback: its result for the current inputs

vars == <<dir, pc, df_raw, sections, ui, outputs>>

----------------------------------------------------------------------------
(* Values *)

NaN == "NaN"

NaT == -1

\* An 'Alert Time' cell holding text that pd.to_datetime cannot parse.
BadText == -2

NoneVal == "None"

DayStartHour == 6

DayEndHour == 22

MaxFiles == 2

MaxClicks == 2

Ts(day, h, m, s) == day * 86400 + h * 3600 + m * 60 + s

\* t.time(), in seconds since midnight
TimeOfDay(t) == t % 86400

\* df_raw['Alert Time'].dt.date
DateOf(t) == IF t = NaT THEN NaT ELSE t \div 86400

\* df_raw['Alert Time'].dt.hour
HourOf(t) == IF t = NaT THEN NaT ELSE (t % 86400) \div 3600

\* pd.to_datetime(..., errors='coerce', dayfirst=True) on one cell
to_datetime_coerce(cell) == IF cell >= 0 THEN cell ELSE NaT

classify_alarm_type_late(t) ==
    IF t = NaT THEN "Unknown"
    ELSE IF DayStartHour * 3600 <= TimeOfDay(t) /\ TimeOfDay(t) < DayEndHour * 3600
         THEN "Day" ELSE "Night"

classify_alarm_type(t) ==
    IF t = NaT THEN "Unknown"
    ELSE IF DayStartHour * 3600 <= TimeOfDay(t) /\ TimeOfDay(t) <= DayEndHour * 3600
         THEN "Day" ELSE "Night"

Verified_all(r) == r.Resolution1 # NaN /\ r.Resolution2 # NaN

\* df_raw[[remark columns]].notnull().any(axis=1)
Verified(r) == r.Resolution1 # NaN \/ r.Resolution2 # NaN

----------------------------------------------------------------------------
(* The data directory *)

Row(sec, ch, lat, lon, t, r1, r2) ==
    [Section |-> sec, Chainage |-> ch, Latitude |-> lat, Longitude |-> lon,
     AlertTime |-> t, Resolution1 |-> r1, Resolution2 |-> r2]

NullRow == Row(NaN, NaN, NaN, NaN, NaT, NaN, NaN)

Name(prefix, stem, ext) == [prefix |-> prefix, stem |-> stem, ext |-> ext]

File(name, parses, rows) == [name |-> name, parses |-> parses, rows |-> rows]

\* glob.glob(folder_path + "/*.xlsx"): '*' matches no leading dot
GlobMatches(f) == f.name.ext = ".xlsx" /\ f.name.prefix # "."

\* os.path.basename(file).startswith('~$')
IsLockFile(f) == f.name.prefix = "~$"

valid_files(d) == SelectSeq(d, LAMBDA f : GlobMatches(f) /\ ~IsLockFile(f))

\* df.dropna(how='all').empty
DropnaAllEmpty(rows) == \A i \in 1..Len(rows) : rows[i] = NullRow

RECURSIVE Concat(_)
Concat(dfs) == IF dfs = <<>> THEN <<>> ELSE Head(dfs).rows \o Concat(Tail(dfs))

\* the frames load_all_excels appends to df_list
df_list(d) == SelectSeq(valid_files(d), LAMBDA f : ~DropnaAllEmpty(f.rows))

\* pd.read_excel raises on a file that is no workbook
ReadFails(d) == \E i \in 1..Len(valid_files(d)) : ~valid_files(d)[i].parses

\* pd.concat raises ValueError on an empty list
ConcatFails(d) == df_list(d) = <<>>

\* pd.concat(df_list, ignore_index=True): rows labelled 0..n-1
Reindex(rows) == [i \in 1..Len(rows) |-> [index |-> i - 1] @@ rows[i]]

\* load_all_excels, with the exception that ends the import as "raise"
load_all_excels(d) ==
    IF ReadFails(d) \/ ConcatFails(d) THEN "raise" ELSE "return"

----------------------------------------------------------------------------
(* Preprocessing and the layout's initial values *)

IsoDates == <<"2024-01-01", "2024-01-02">>

DmyDates == <<"01-01-2024", "02-01-2024">>

Days == 1..Len(IsoDates)

\* a datetime.date as Dash serialises it into the date picker
IsoFormat(d) == IF d = NaT THEN NoneVal ELSE IsoDates[d]

\* pd.to_datetime(start_date).date(), for a value that is not None
to_date(s) == CHOOSE d \in Days : IsoDates[d] = s

\* pd.to_datetime(start_date).strftime('%d-%m-%Y')
strftime_dmy(s) == DmyDates[to_date(s)]

Preprocessed(r) ==
    LET t == to_datetime_coerce(r.AlertTime)
    IN  [r EXCEPT !.AlertTime = t] @@
        [Date |-> DateOf(t), Hour |-> HourOf(t),
         AlarmType |-> classify_alarm_type(t), Verified |-> Verified(r)]

RECURSIVE Unique(_, _)
Unique(xs, seen) ==
    IF xs = <<>> THEN <<>>
    ELSE IF Head(xs) \in seen THEN Unique(Tail(xs), seen)
         ELSE <<Head(xs)>> \o Unique(Tail(xs), seen \cup {Head(xs)})

\* df_raw['Section'].dropna().unique(): first-appearance order
SectionsOf(df) ==
    Unique([i \in 1..Len(SelectSeq(df, LAMBDA r : r.Section # NaN)) |->
               SelectSeq(df, LAMBDA r : r.Section # NaN)[i].Section], {})

DatesOf(df) == {df[i].Date : i \in 1..Len(df)} \ {NaT}

\* df_raw['Date'].min() and .max(); NaT when no row has a date
MinDate(df) ==
    IF DatesOf(df) = {} THEN NaT
    ELSE CHOOSE d \in DatesOf(df) : \A e \in DatesOf(df) : d <= e

MaxDate(df) ==
    IF DatesOf(df) = {} THEN NaT
    ELSE CHOOSE d \in DatesOf(df) : \A e \in DatesOf(df) : d >= e

Callbacks ==
    {"update_alarm_count_graph", "update_verify_graph",
     "update_unverified_table", "download_unverified_excel"}

Idle == [status |-> "idle"]

Pending(id) == [status |-> "pending", triggered_id |-> id]

NoUi ==
    [alarm_type |-> NoneVal, start_date |-> NoneVal, end_date |-> NoneVal,
     section |-> NoneVal, n_clicks |-> 0]

----------------------------------------------------------------------------
(* Start-up: the module-level statements, in order *)

\* df_raw = load_all_excels(folder_path)
LoadAllExcels ==
    /\ pc = "boot"
    /\ IF load_all_excels(dir) = "raise"
       THEN pc' = "aborted" /\ df_raw' = df_raw
       ELSE pc' = "loaded" /\ df_raw' = Reindex(Concat(df_list(dir)))
    /\ UNCHANGED <<dir, sections, ui, outputs>>

\* the rename, the derived columns and the list of sections
Preprocess ==
    /\ pc = "loaded"
    /\ df_raw' = [i \in 1..Len(df_raw) |-> Preprocessed(df_raw[i])]
    /\ sections' = SectionsOf(df_raw)
    /\ pc' = "classified"
    /\ UNCHANGED <<dir, ui, outputs>>

\* app.layout: sections[0] raises IndexError on an empty list; on page load
\* Dash calls every callback but the one with prevent_initial_call
Layout ==
    /\ pc = "classified"
    /\ IF sections = <<>>
       THEN pc' = "aborted" /\ UNCHANGED <<ui, outputs>>
       ELSE /\ pc' = "serving"
            /\ ui' = [alarm_type |-> "Day",
                      start_date |-> IsoFormat(MinDate(df_raw)),
                      end_date |-> IsoFormat(MaxDate(df_raw)),
                      section |-> sections[1], n_clicks |-> 0]
            /\ outputs' = [cb \in Callbacks |->
                              IF cb = "download_unverified_excel" THEN Idle
                              ELSE Pending("page-load")]
    /\ UNCHANGED <<dir, df_raw, sections>>

----------------------------------------------------------------------------
(* Directories of the start-up specification *)

AlertCells ==
    {NaT, BadText, Ts(1, 5, 59, 59), Ts(1, 6, 0, 0), Ts(1, 22, 0, 0),
     Ts(1, 22, 0, 1), Ts(2, 12, 0, 0)}

Remarks == {NaN, "patrolled 10:15"}

StartupRows ==
    {Row("A", "12.5", "10", "20", t, r1, r2) :
        t \in AlertCells, r1 \in Remarks, r2 \in Remarks}
    \cup {NullRow, Row(NaN, "12.5", "10", "20", Ts(1, 6, 0, 0), NaN, NaN)}

PlainNames == {Name("", "jan", ".xlsx"), Name("", "feb", ".xlsx")}

OtherNames == {Name("~$", "jan", ".xlsx"), Name("", "jan", ".csv")}

StartupFiles ==
    {File(n, FALSE, <<>>) : n \in PlainNames \cup OtherNames}
    \cup {File(n, TRUE, <<>>) : n \in PlainNames}
    \cup {File(n, TRUE, <<r>>) : n \in PlainNames, r \in StartupRows}
    \cup {File(n, TRUE, <<Row("A", "12.5", "10", "20", Ts(1, 6, 0, 0), NaN, NaN)>>) :
             n \in OtherNames}

DistinctNames(d) ==
    \A i, j \in 1..Len(d) : d[i].name = d[j].name => i = j

Listings(files, n) ==
    {d \in UNION {[1..k -> files] : k \in 0..n} : DistinctNames(d)}

InitStartup ==
    /\ dir \in Listings(StartupFiles, MaxFiles)
    /\ pc = "boot"
    /\ df_raw = <<>>
    /\ sections = <<>>
    /\ ui = NoUi
    /\ outputs = [cb \in Callbacks |-> Idle]

NextStartup == LoadAllExcels \/ Preprocess \/ Layout

SpecStartup == InitStartup /\ [][NextStartup]_vars

----------------------------------------------------------------------------
(* The callbacks *)

Raised(what) == [status |-> "error", raised |-> what]

\* pd.to_datetime(None) is None, and None has no .date()
NoDate(start_date, end_date) == start_date = NoneVal \/ end_date = NoneVal

InRange_open(r, start_date, end_date) ==
    /\ r.Date # NaT
    /\ r.Date >= to_date(start_date)
    /\ r.Date < to_date(end_date)

\* (df_raw['Date'] >= start) & (df_raw['Date'] <= end); a comparison with
\* NaT is False
InRange(r, start_date, end_date) ==
    /\ r.Date # NaT
    /\ r.Date >= to_date(start_date)
    /\ r.Date <= to_date(end_date)

\* df_raw['Section'] == section; False on NaN, and everywhere when the
\* dropdown is cleared (section is None)
SectionIs(r, section) == r.Section # NaN /\ section # NoneVal /\ r.Section = section

\* the three conjuncts every callback starts its mask with
BaseMask(r, alarm_type, start_date, end_date, section) ==
    /\ r.AlarmType = alarm_type
    /\ InRange(r, start_date, end_date)
    /\ SectionIs(r, section)

Index(df) == [i \in 1..Len(df) |-> df[i].index]

Values(df, col) == {df[i][col] : i \in 1..Len(df)} \ {NaT}

HistogramColumn_date(start_date, end_date) == "Date"

\* if start_date == end_date: x='Hour' else: x='Date'
HistogramColumn(start_date, end_date) ==
    IF start_date = end_date THEN "Hour" ELSE "Date"

\* px.histogram(filtered, x=col): one bar per value of the column, its
\* height the number of rows with that value
Histogram(df, col) ==
    [v \in Values(df, col) |-> Len(SelectSeq(df, LAMBDA r : r[col] = v))]

update_alarm_count_graph(df, alarm_type, start_date, end_date, section) ==
    IF NoDate(start_date, end_date) THEN Raised("AttributeError")
    ELSE LET filtered ==
                 SelectSeq(df, LAMBDA r :
                     BaseMask(r, alarm_type, start_date, end_date, section))
             col == HistogramColumn(start_date, end_date)
         IN  [status |-> "ok", filtered |-> Index(filtered), x |-> col,
              bars |-> Histogram(filtered, col)]

Summary_count_chainage(g) ==
    [total_alarms |-> Len(SelectSeq(g, LAMBDA r : r.Chainage # NaN)),
     verified |-> Len(SelectSeq(g, LAMBDA r : r.Verified)),
     unverified |-> Len(SelectSeq(g, LAMBDA r : ~r.Verified))]

\* total_alarms=('Alert Time', 'count'), verified=x.sum(), unverified=(~x).sum()
Summary(g) ==
    [total_alarms |-> Len(SelectSeq(g, LAMBDA r : r.AlertTime # NaT)),
     verified |-> Len(SelectSeq(g, LAMBDA r : r.Verified)),
     unverified |-> Len(SelectSeq(g, LAMBDA r : ~r.Verified))]

update_verify_graph(df, alarm_type, start_date, end_date, section) ==
    IF NoDate(start_date, end_date) THEN Raised("AttributeError")
    ELSE LET filtered ==
                 SelectSeq(df, LAMBDA r :
                     BaseMask(r, alarm_type, start_date, end_date, section))
         IN  [status |-> "ok", filtered |-> Index(filtered),
              summary |-> [d \in Values(filtered, "Date") |->
                              Summary(SelectSeq(filtered, LAMBDA r : r.Date = d))]]

HasCoordinates_lat_lon(r) == r.Latitude # NaN /\ r.Longitude # NaN

\* dropna(subset=['Chainage', 'Latitude', 'Longitude']) keeps the row
HasCoordinates(r) == r.Chainage # NaN /\ r.Latitude # NaN /\ r.Longitude # NaN

\* the mask of the table and of the export: the base mask & ~Verified
UnverifiedMask(r, alarm_type, start_date, end_date, section) ==
    BaseMask(r, alarm_type, start_date, end_date, section) /\ ~r.Verified

\* the Markdown link to Google Maps, by its two coordinates
Location(r) == <<"https://www.google.com/maps?q=", r.Latitude, r.Longitude, "&t=k">>

TableRecord(r) ==
    [Section |-> r.Section, Chainage |-> r.Chainage, AlertTime |-> r.AlertTime,
     Location |-> Location(r)]

SheetRecord(r) ==
    [Section |-> r.Section, Chainage |-> r.Chainage, AlertTime |-> r.AlertTime,
     Latitude |-> r.Latitude, Longitude |-> r.Longitude]

\* filtered.apply(lambda row: ..., axis=1): one link per row, an empty
\* column on a frame with no rows (pandas 1.5 and later)
LocationColumn(kept) == [i \in 1..Len(kept) |-> Location(kept[i])]

update_unverified_table(df, alarm_type, start_date, end_date, section) ==
    IF NoDate(start_date, end_date) THEN Raised("AttributeError")
    ELSE LET filtered ==
                 SelectSeq(df, LAMBDA r :
                     UnverifiedMask(r, alarm_type, start_date, end_date, section))
             kept == SelectSeq(filtered, HasCoordinates)
             links == LocationColumn(kept)
         IN  [status |-> "ok", filtered |-> Index(filtered), kept |-> Index(kept),
              records |-> [i \in 1..Len(kept) |->
                              [TableRecord(kept[i]) EXCEPT !.Location = links[i]]]]

\* section.replace(" ", "_")
section_clean(section) ==
    CASE section = "Sec A" -> "Sec_A"
      [] section = "Sec B" -> "Sec_B"
      [] OTHER -> section

Trigger_any(triggered_id) == TRUE

\* the guard of the export: ctx.triggered_id == 'download-excel-btn'
Trigger(triggered_id) == triggered_id = "download-excel-btn"

download_unverified_excel(df, triggered_id, alarm_type, start_date, end_date, section) ==
    IF ~Trigger(triggered_id) THEN [status |-> "none"]
    ELSE IF NoDate(start_date, end_date) THEN Raised("AttributeError")
    ELSE IF section = NoneVal THEN Raised("AttributeError")
    ELSE LET filtered ==
                 SelectSeq(df, LAMBDA r :
                     UnverifiedMask(r, alarm_type, start_date, end_date, section))
             kept == SelectSeq(filtered, HasCoordinates)
         IN  [status |-> "ok", filtered |-> Index(filtered), kept |-> Index(kept),
              sheet |-> [i \in 1..Len(kept) |-> SheetRecord(kept[i])],
              filename |-> <<section_clean(section), strftime_dmy(start_date),
                             strftime_dmy(end_date), alarm_type>>]

----------------------------------------------------------------------------
(* Serving: input events and callback invocations *)

Busy(cb) == outputs[cb].status = "pending"

\* a changed filter input: Dash calls all four callbacks
FilterChanged(id, new_ui) ==
    /\ pc = "serving"
    /\ ~Busy("download_unverified_excel")
    /\ new_ui # ui
    /\ ui' = new_ui
    /\ outputs' = [cb \in Callbacks |-> Pending(id)]
    /\ UNCHANGED <<dir, pc, df_raw, sections>>

SetAlarmType ==
    \E v \in {"Day", "Night"} :
        FilterChanged("alarm-type", [ui EXCEPT !.alarm_type = v])

SetStartDate ==
    \E d \in Days :
        FilterChanged("date-range", [ui EXCEPT !.start_date = IsoDates[d]])

SetEndDate ==
    \E d \in Days :
        FilterChanged("date-range", [ui EXCEPT !.end_date = IsoDates[d]])

\* the section dropdown is clearable: its value may become None
SetSection ==
    \E v \in {sections[i] : i \in 1..Len(sections)} \cup {NoneVal} :
        FilterChanged("section", [ui EXCEPT !.section = v])

\* the download button: only the export has n_clicks as an input
ClickDownload ==
    /\ pc = "serving"
    /\ ~Busy("download_unverified_excel")
    /\ ui.n_clicks < MaxClicks
    /\ ui' = [ui EXCEPT !.n_clicks = @ + 1]
    /\ outputs' = [outputs EXCEPT
                      !["download_unverified_excel"] = Pending("download-excel-btn")]
    /\ UNCHANGED <<dir, pc, df_raw, sections>>

df_after_table_inplace(df) ==
    [i \in 1..Len(df) |-> df[i] @@ [Location |-> Location(df[i])]]

\* filtered['Location'] = ... writes to the copy the boolean indexing and
\* dropna made: df_raw is left as it was
df_after_table(df) == df

Returns(cb, result) ==
    /\ pc = "serving"
    /\ Busy(cb)
    /\ outputs' = [outputs EXCEPT ![cb] = result]
    /\ UNCHANGED <<dir, pc, sections, ui>>

AlarmCountGraph ==
    /\ Returns("update_alarm_count_graph",
               update_alarm_count_graph(df_raw, ui.alarm_type, ui.start_date,
                                        ui.end_date, ui.section))
    /\ df_raw' = df_raw

VerifyGraph ==
    /\ Returns("update_verify_graph",
               update_verify_graph(df_raw, ui.alarm_type, ui.start_date,
                                   ui.end_date, ui.section))
    /\ df_raw' = df_raw

UnverifiedTable ==
    /\ Returns("update_unverified_table",
               update_unverified_table(df_raw, ui.alarm_type, ui.start_date,
                                       ui.end_date, ui.section))
    /\ df_raw' = df_after_table(df_raw)

DownloadExcel ==
    /\ Returns("download_unverified_excel",
               download_unverified_excel(
                   df_raw, outputs["download_unverified_excel"].triggered_id,
                   ui.alarm_type, ui.start_date, ui.end_date, ui.section))
    /\ df_raw' = df_raw

----------------------------------------------------------------------------
(* Directories of the serving specification: any choice among six files *)

SecA == "Sec A"

SecB == "Sec B"

Workbooks ==
    << File(Name("", "jan", ".xlsx"), TRUE,
            << Row(SecA, "12.5", "10", "20", Ts(1, 6, 0, 0), NaN, NaN),
               Row(SecA, "13.0", "10", NaN, Ts(1, 6, 30, 0), NaN, NaN) >>),
       File(Name("", "feb", ".xlsx"), TRUE,
            << Row(SecA, "14.0", "11", "21", Ts(1, 22, 0, 0), NaN, "guard 22:10"),
               Row(SecA, NaN, "11", "21", Ts(2, 12, 0, 0), NaN, NaN) >>),
       File(Name("", "mar", ".xlsx"), TRUE,
            << Row(SecA, "15.0", "12", "22", Ts(1, 22, 0, 1), NaN, NaN),
               Row(SecA, "15.5", "12", "22", Ts(2, 5, 59, 59), "ok 06:20", NaN) >>),
       File(Name("", "apr", ".xlsx"), TRUE,
            << Row(SecB, "30.0", "13", "23", Ts(1, 7, 0, 0), NaN, NaN),
               Row(NaN, "31.0", "13", "23", Ts(1, 8, 0, 0), NaN, NaN) >>),
       File(Name("", "may", ".xlsx"), TRUE,
            << Row(SecA, "16.0", NaN, "24", BadText, NaN, NaN), NullRow >>),
       File(Name("", "jun", ".xlsx"), TRUE,
            << Row(SecA, "17.0", "15", "25", Ts(2, 6, 0, 0), NaN, NaN) >>) >>

RECURSIVE Chosen(_, _)
Chosen(files, pick) ==
    IF files = <<>> THEN <<>>
    ELSE (IF Len(files) \in pick THEN <<Head(files)>> ELSE <<>>)
         \o Chosen(Tail(files), pick)

Init ==
    /\ dir \in {Chosen(Workbooks, pick) : pick \in SUBSET (1..Len(Workbooks))}
    /\ pc = "boot"
    /\ df_raw = <<>>
    /\ sections = <<>>
    /\ ui = NoUi
    /\ outputs = [cb \in Callbacks |-> Idle]

Next ==
    \/ LoadAllExcels
    \/ Preprocess
    \/ Layout
    \/ SetAlarmType
    \/ SetStartDate
    \/ SetEndDate
    \/ SetSection
    \/ ClickDownload
    \/ AlarmCountGraph
    \/ VerifyGraph
    \/ UnverifiedTable
    \/ DownloadExcel

Spec == Init /\ [][Next]_vars

----------------------------------------------------------------------------
(* Properties *)

Range(seq) == {seq[i] : i \in 1..Len(seq)}

Out(cb) == outputs[cb]

Ok(cb) == pc = "serving" /\ outputs[cb].status = "ok"

Classified == pc \in {"classified", "serving"}

RECURSIVE SumOver(_, _)
SumOver(f, S) ==
    IF S = {} THEN 0
    ELSE LET x == CHOOSE y \in S : TRUE IN f[x] + SumOver(f, S \ {x})

\* The events of the store that the current filter selects: alarm type equal,
\* date within [start, end], section equal.
Matching ==
    {r \in Range(df_raw) :
        /\ r.AlarmType = ui.alarm_type
        /\ r.Date # NaT
        /\ to_date(ui.start_date) <= r.Date
        /\ r.Date <= to_date(ui.end_date)
        /\ r.Section # NaN
        /\ r.Section = ui.section}

Indexes(rows) == {r.index : r \in rows}

Complete(r) == r.Chainage # NaN /\ r.Latitude # NaN /\ r.Longitude # NaN

\* C2: after classification, a row's alarm type is Unknown exactly when its
\* alert time is null; otherwise it is Day exactly when the time of day is
\* within 06:00:00..22:00:00, both ends included, and Night otherwise.
C2_AlarmType ==
    Classified =>
        \A r \in Range(df_raw) :
            LET tod == r.AlertTime % 86400
            IN  /\ r.AlarmType = "Unknown" <=> r.AlertTime = NaT
                /\ r.AlertTime # NaT =>
                      /\ r.AlarmType = "Day" <=> (21600 <= tod /\ tod <= 79200)
                      /\ r.AlarmType = "Night" <=> (tod < 21600 \/ tod > 79200)

C2_Witness ==
    /\ Classified
    /\ \E r \in Range(df_raw) : r.AlertTime % 86400 = 79200 /\ r.AlarmType = "Day"
    /\ \E r \in Range(df_raw) : r.AlertTime % 86400 = 79201 /\ r.AlarmType = "Night"

\* C3: after classification, a row is verified exactly when one of its two
\* resolution remarks is non-null.
C3_Verified ==
    Classified =>
        \A r \in Range(df_raw) :
            r.Verified = ~(r.Resolution1 = NaN /\ r.Resolution2 = NaN)

C3_Witness ==
    /\ Classified
    /\ \E r \in Range(df_raw) :
          r.Resolution1 = NaN /\ r.Resolution2 # NaN /\ r.Verified
    /\ \E r \in Range(df_raw) :
          r.Resolution1 = NaN /\ r.Resolution2 = NaN /\ ~r.Verified

\* Eligibility as the claim words it: the .xlsx extension and a name that
\* does not begin with '~$'.
Eligible(f) == f.name.ext = ".xlsx" /\ f.name.prefix # "~$"

EligibleFiles == SelectSeq(dir, Eligible)

EntirelyEmpty(f) == \A r \in Range(f.rows) : r = NullRow

LoadRaised == pc = "aborted" /\ df_raw = <<>>

\* C7 (as claimed): ingestion aborts when no file is eligible or an eligible
\* file cannot be parsed; otherwise it succeeds, an entirely empty eligible
\* file being left out of the concatenation without causing an error.
C7_Ingestion ==
    pc # "boot" =>
        IF EligibleFiles = <<>> \/ \E f \in Range(EligibleFiles) : ~f.parses
        THEN LoadRaised
        ELSE /\ ~LoadRaised
             /\ Len(df_raw) =
                   Len(Concat(SelectSeq(EligibleFiles, LAMBDA f : ~EntirelyEmpty(f))))

\* C1: all four callbacks build their frame on the same base predicate (alarm
\* type equal, date within [start, end] with both ends included, section
\* equal): the two graphs filter exactly the matching events, the table and
\* the export exactly the matching events that are not verified; no event
\* with a null date or a null section is in any of the four frames.
C1_BasePredicate ==
    /\ \A cb \in {"update_alarm_count_graph", "update_verify_graph"} :
          Ok(cb) => Range(Out(cb).filtered) = Indexes(Matching)
    /\ \A cb \in {"update_unverified_table", "download_unverified_excel"} :
          Ok(cb) => Range(Out(cb).filtered) =
                       Indexes({r \in Matching : ~r.Verified})
    /\ \A cb \in Callbacks :
          Ok(cb) => \A r \in Range(df_raw) :
                       r.index \in Range(Out(cb).filtered) =>
                           r.Date # NaT /\ r.Section # NaN

C1_Witness ==
    /\ \A cb \in Callbacks : Ok(cb)
    /\ Out("update_unverified_table").filtered # <<>>
    /\ Range(Out("update_unverified_table").filtered) #
          Range(Out("update_alarm_count_graph").filtered)
    /\ ui.start_date # ui.end_date
    /\ \E r \in Range(df_raw) : r.Date = NaT /\ r.Section = ui.section
    /\ \E r \in Range(df_raw) : r.Section = NaN

\* C4: in every date bucket of the verification summary, verified plus
\* unverified is the total, the total being the number of matching events of
\* that date and verified the number of those that are verified.
C4_BucketsAddUp ==
    Ok("update_verify_graph") =>
        LET summary == Out("update_verify_graph").summary
        IN  /\ DOMAIN summary = {r.Date : r \in Matching}
            /\ \A d \in DOMAIN summary :
                  /\ summary[d].verified + summary[d].unverified
                        = summary[d].total_alarms
                  /\ summary[d].total_alarms
                        = Cardinality({r \in Matching : r.Date = d})
                  /\ summary[d].verified
                        = Cardinality({r \in Matching : r.Date = d /\ r.Verified})
                  /\ summary[d].unverified
                        = Cardinality({r \in Matching : r.Date = d /\ ~r.Verified})

C4_Witness ==
    /\ Ok("update_verify_graph")
    /\ \E d \in DOMAIN Out("update_verify_graph").summary :
          /\ Out("update_verify_graph").summary[d].verified >= 1
          /\ Out("update_verify_graph").summary[d].unverified >= 2
    /\ \E r \in Matching : r.Chainage = NaN

\* C5: an invocation of the export returns a payload only when the download
\* button triggered it; an invocation a filter change triggered returns None,
\* however many clicks came before.
C5_ExportOnlyOnClick ==
    [][LET before == outputs["download_unverified_excel"]
           after == outputs'["download_unverified_excel"]
       IN  (before.status = "pending" /\ after.status # "pending") =>
               /\ after.status = "ok" => before.triggered_id = "download-excel-btn"
               /\ before.triggered_id # "download-excel-btn" =>
                     after.status = "none"]_vars

C5_Witness ==
    /\ pc = "serving"
    /\ ui.n_clicks >= 2
    /\ outputs["download_unverified_excel"].status = "none"
    /\ Ok("update_unverified_table")
    /\ Out("update_unverified_table").records # <<>>

\* C6: the table and the export hold the same events, the matching events
\* that are not verified and have chainage, latitude and longitude; a matching
\* unverified event lacking one of the three is in neither, and is counted
\* as unverified in the bucket of its date.
C6_MissingCoordinates ==
    /\ \A cb \in {"update_unverified_table", "download_unverified_excel"} :
          Ok(cb) =>
             /\ Range(Out(cb).kept) =
                   Indexes({r \in Matching : ~r.Verified /\ Complete(r)})
             /\ \A r \in Matching :
                   (~r.Verified /\ ~Complete(r)) => r.index \notin Range(Out(cb).kept)
    /\ Ok("update_unverified_table") =>
          Len(Out("update_unverified_table").records)
             = Len(Out("update_unverified_table").kept)
    /\ (Ok("update_unverified_table") /\ Ok("download_unverified_excel")) =>
          /\ Out("update_unverified_table").kept
                = Out("download_unverified_excel").kept
          /\ Len(Out("download_unverified_excel").sheet)
                = Len(Out("update_unverified_table").records)
    /\ Ok("update_verify_graph") =>
          \A r \in Matching :
             (~r.Verified /\ ~Complete(r)) =>
                Out("update_verify_graph").summary[r.Date].unverified
                   = Cardinality({q \in Matching : q.Date = r.Date /\ ~q.Verified})

C6_Witness ==
    /\ \A cb \in Callbacks \ {"update_alarm_count_graph"} : Ok(cb)
    /\ Out("update_unverified_table").kept # <<>>
    /\ \E r \in Matching : ~r.Verified /\ r.Longitude = NaN
    /\ \E r \in Matching : ~r.Verified /\ r.Chainage = NaN

C10_StoreUnchanged ==
    [][Classified => df_raw' = df_raw]_vars

C10_Witness ==
    /\ \A cb \in Callbacks : Ok(cb)
    /\ Out("update_unverified_table").records # <<>>
    /\ Out("download_unverified_excel").sheet # <<>>
    /\ ui.n_clicks >= 2
    /\ ui.alarm_type = "Night"

====
